---- MODULE Spec2Model ----
(***************************************************************************)
(* A model of pljava-so/src/main/c/Function.c: the function registry       *)
(* (s_funcMap), descriptor construction (Function_create and the store     *)
(* callbacks), the shared parameter area (s_countCheck,                    *)
(* s_primitiveParameters, s_referenceParameters) with its save/restore     *)
(* frames, and the invocation paths Function_invoke and                    *)
(* Function_invokeTrigger.                                                 *)
(*                                                                         *)
(* The backend is single threaded; the only interleaving is reentrancy.    *)
(* Each call on the Invocation stack carries a position (pc), and a        *)
(* handler is cut into steps only where guest code runs and may reenter    *)
(* the bridge: inside Function.create, inside Type_coerceDatum, and inside *)
(* the invoked method.                                                     *)
(***************************************************************************)
EXTENDS Integers, Sequences, FiniteSets, TLC

\* ---------------------------------------------------------------- bounds
MaxDepth == 2
MaxDesc == 3
AreaSlots == 3

NULL == 0
Vals == {5, 7}
ObjBase == 100
TriggerDataObj == 199
ResultSetObj == 198

\* the most parameters the area is dimensioned for
MaxParams == 255

\* the most type reconciliations one Function.create makes
MaxReconcile == 2

\* ----------------------------------------------------------------- types
\* Type.c, over the types int, int[], Object, any (dynamic) and composite,
\* and the coercing adapters in(t) and out(t) around int, int[] and Object
Type_getCoerceIn(replType, origType) ==
    CASE replType = "int" -> "in(int)"
      [] replType = "int[]" -> "in(int[])"
      [] OTHER -> "in(Object)"

Type_getCoerceOut(replType, origType) ==
    CASE replType = "int" -> "out(int)"
      [] replType = "int[]" -> "out(int[])"
      [] OTHER -> "out(Object)"

\* the type whose guest representation t has: an adapter has that of the
\* type it wraps
TypeBase(t) ==
    CASE t \in {"in(int)", "out(int)"} -> "int"
      [] t \in {"in(int[])", "out(int[])"} -> "int[]"
      [] t \in {"in(Object)", "out(Object)"} -> "Object"
      [] OTHER -> t

Type_isPrimitive(t) == TypeBase(t) \in {"int", "int[]"}

Type_getElementType(t) == IF TypeBase(t) = "int[]" THEN "int" ELSE "none"

Type_isDynamic(t) == t = "any"

Type_getRealType(t) == IF t = "any" THEN "Object" ELSE t

Type_isOutParameter(t) == t = "composite"

Type_coerceDatum(t, d) == IF TypeBase(t) = "int" THEN d ELSE ObjBase + d

passAsPrimitive_IgnoreElement(t) == Type_isPrimitive(t)

\* a primitive type is passed in a primitive slot, an array of primitives
\* (for which Type_isPrimitive is true as well) in a reference slot
passAsPrimitive(t) == Type_isPrimitive(t) /\ Type_getElementType(t) = "none"

\* ------------------------------------------------- host metadata (pg_proc)
Oids == 1..9

ProcCatalog(oid) ==
    CASE oid = 1 -> [kind |-> "plain", paramTypes |-> <<"int", "Object">>,
                     returnType |-> "int", isMultiCall |-> FALSE, readOnly |-> FALSE]
      [] oid = 2 -> [kind |-> "plain", paramTypes |-> <<"any">>,
                     returnType |-> "Object", isMultiCall |-> TRUE, readOnly |-> TRUE]
      [] oid = 3 -> [kind |-> "udt", paramTypes |-> <<>>,
                     returnType |-> "Object", isMultiCall |-> FALSE, readOnly |-> FALSE]
      [] oid = 4 -> [kind |-> "trigger", paramTypes |-> <<>>,
                     returnType |-> "Object", isMultiCall |-> FALSE, readOnly |-> FALSE]
      [] oid = 6 -> [kind |-> "plain", paramTypes |-> <<"int", "int[]", "int">>,
                     returnType |-> "int", isMultiCall |-> FALSE, readOnly |-> FALSE]
      [] oid = 8 -> [kind |-> "plain", paramTypes |-> <<"int">>,
                     returnType |-> "composite", isMultiCall |-> TRUE, readOnly |-> FALSE]
      [] oid = 9 -> [kind |-> "plain", paramTypes |-> <<"Object">>,
                     returnType |-> "composite", isMultiCall |-> FALSE, readOnly |-> FALSE]
      [] oid = 7 -> [kind |-> "plain", paramTypes |-> [i \in 1..MaxParams |-> "Object"],
                     returnType |-> "composite", isMultiCall |-> FALSE, readOnly |-> FALSE]
      [] OTHER   -> [kind |-> "plain", paramTypes |-> <<>>,
                     returnType |-> "composite", isMultiCall |-> FALSE, readOnly |-> TRUE]

\* --------------------------------------------------------------- state
VARIABLES
    heap,                   \* struct Function_ instances, by address
    s_funcMap,              \* the registry: Oid -> address, NULL when absent
    stack,                  \* the Invocation stack; currentInvocation is its last element
    s_countCheck,           \* the header of the parameter area
    s_primitiveParameters,  \* the primitive slots
    s_referenceParameters,  \* the reference slots
    paramFrames,            \* the guest's ParameterFrame stack of saved areas
    lastLookup,             \* history: what the last non-validator lookup of each Oid returned
    effects                 \* history: what the last step released, popped and exited

vars == <<heap, s_funcMap, stack, s_countCheck, s_primitiveParameters,
          s_referenceParameters, paramFrames, lastLookup, effects>>

NoEffects == [released |-> {}, popped |-> FALSE, exited |-> "none"]

Released(ds) == [NoEffects EXCEPT !.released = ds]

areaVars == <<s_countCheck, s_primitiveParameters, s_referenceParameters, paramFrames>>

Slots == 0..(AreaSlots - 1)

Descs == 1..MaxDesc

\* allocInstance zeroes memory
ZeroFunction ==
    [allocated |-> FALSE, readOnly |-> FALSE, isUDT |-> FALSE, clazz |-> NULL,
     schemaLoader |-> NULL, isMultiCall |-> FALSE, numRefParams |-> 0,
     numPrimParams |-> 0, paramTypes |-> <<>>, returnType |-> "none",
     typeMap |-> NULL, methodHandle |-> NULL, udt |-> NULL, udtFunction |-> "none"]

Area == [cc |-> s_countCheck, prims |-> s_primitiveParameters,
         refs |-> s_referenceParameters]

NoArea == [cc |-> 0, prims |-> [i \in Slots |-> 0], refs |-> [i \in Slots |-> NULL]]

Depth == Len(stack)

Top == stack[Depth]

SetTop(f) == [stack EXCEPT ![Depth] = f]

\* (history) what a trigger call met after Type_invoke: whether a guest
\* failure was pending, whether the guest's result was null, and the host
\* operations made before returning
NoTriggerResult == [pending |-> FALSE, guestNull |-> FALSE, steps |-> <<>>]

NewInvocation(oid, fv) ==
    [function |-> NULL, pushedFrame |-> FALSE, pc |-> "lookup", funcOid |-> oid,
     forValidator |-> fv, forTrigger |-> (ProcCatalog(oid).kind = "trigger" /\ ~fv),
     self |-> NULL, cstep |-> "none", udtTag |-> "none", nrec |-> 0, firstCall |-> TRUE, idx |-> 0, refIdx |-> 0, primIdx |-> 0,
     args |-> <<>>, coerced |-> {}, resolved |-> {}, setp |-> <<>>,
     retVal |-> 0, isnull |-> FALSE, trig |-> NoTriggerResult,
     entry |-> IF s_countCheck # 0 THEN Area ELSE NoArea]

COUNTCHECK(refs, prims) ==
    LET w == (refs * 256 + (prims % 256)) % 65536
    IN  IF w >= 32768 THEN w - 65536 ELSE w

Init ==
    /\ heap = [d \in Descs |-> ZeroFunction]
    /\ s_funcMap = [o \in Oids |-> NULL]
    /\ stack = <<>>
    /\ s_countCheck = 0
    /\ s_primitiveParameters = [i \in Slots |-> 0]
    /\ s_referenceParameters = [i \in Slots |-> NULL]
    /\ paramFrames = <<>>
    /\ lastLookup = [o \in Oids |-> NULL]
    /\ effects = NoEffects

\* ------------------------------------------------------------- registry
Min(S) == CHOOSE x \in S : \A y \in S : x <= y

FreeDescs == {d \in Descs : ~heap[d].allocated}

\* a lookup that reads the map for the validator too
CachedFunction_IgnoreValidator(funcOid, forValidator) == s_funcMap[funcOid]

\* a lookup that never finds anything
CachedFunction_NeverCached(funcOid, forValidator) == NULL

\* Function_getFunction's first statement: the validator never reads the map
CachedFunction(funcOid, forValidator) ==
    IF forValidator THEN NULL ELSE s_funcMap[funcOid]

\* a test of currentInvocation alone
Function_inUse_CurrentOnly(func) == Depth > 0 /\ Top.function = func

\* no test at all
Function_inUse_Never(func) == FALSE

\* Function_inUse walks currentInvocation and every ->previous
Function_inUse_OuterOnly(func) == \E i \in 1..(Depth - 1) : stack[i].function = func

Function_inUse(func) == \E i \in 1..Depth : stack[i].function = func

\* an ending that hands null back to every caller
CreateOutcome_NullWhenNotValidating(handle, isUDT, forValidator) ==
    IF handle # NULL \/ isUDT THEN "complete" ELSE "null"

\* an ending that returns the placeholder however little was stored in it
CreateOutcome_ReturnIncomplete(handle, isUDT, forValidator) == "complete"

\* How Function_create ends once the guest's Function.create has returned
CreateOutcome(handle, isUDT, forValidator) ==
    IF handle # NULL THEN "complete"
    ELSE IF ~isUDT THEN (IF forValidator THEN "null" ELSE "error")
    ELSE "complete"

\* if ( NULL != func ) HashMap_putByOid(s_funcMap, funcOid, func)
MapAfterCreate(funcOid, func) ==
    IF func # NULL THEN [s_funcMap EXCEPT ![funcOid] = func] ELSE s_funcMap

NoLookups == [o \in Oids |-> NULL]

\* PG_NARGS(): the host passes one argument per declared parameter, and a
\* trigger call passes none (its one parameter is the trigger data)
NArgs(f) == IF f.forTrigger THEN 0 ELSE Len(heap[f.function].paramTypes)

\* Where guest code runs on behalf of call f, and so may reenter the bridge
ReentryPoint(f) ==
    \/ f.pc \in {"create", "running"}
    \/ f.pc = "marshal" /\ f.idx < NArgs(f)

\* The call handler's entry: a new Invocation is pushed for the call
CallEnter(oid, fv, points) ==
    /\ Depth < MaxDepth
    /\ IF Depth = 0 THEN TRUE ELSE ReentryPoint(Top) /\ Top.pc \in points
    /\ stack' = Append(stack, NewInvocation(oid, fv))
    /\ effects' = NoEffects
    /\ UNCHANGED <<heap, s_funcMap, areaVars, lastLookup>>

\* Function_getFunction up to the guest call made by Function_create
Function_getFunction ==
    /\ Depth > 0
    /\ Top.pc = "lookup"
    /\ LET func == CachedFunction(Top.funcOid, Top.forValidator)
       IN  IF func # NULL
           THEN /\ stack' = SetTop([Top EXCEPT !.function = func, !.pc = "invoke"])
                /\ lastLookup' = [lastLookup EXCEPT ![Top.funcOid] = func]
                /\ UNCHANGED heap
           ELSE /\ FreeDescs # {}
                /\ LET self == Min(FreeDescs)
                   IN  /\ heap' = [heap EXCEPT
                                     ![self] = [ZeroFunction EXCEPT !.allocated = TRUE]]
                       /\ stack' = SetTop([Top EXCEPT !.self = self, !.pc = "create"])
                /\ lastLookup' = IF Top.forValidator
                                 THEN [lastLookup EXCEPT ![Top.funcOid] = NULL]
                                 ELSE lastLookup
    /\ effects' = NoEffects
    /\ UNCHANGED <<s_funcMap, areaVars>>

HeapAfterPfree_Leaked(h, self) == h

\* pfree(self): the placeholder's memory returns to the allocator
HeapAfterPfree(h, self) == [h EXCEPT ![self] = ZeroFunction]

\* Function.create returned: the rest of Function_create and of Function_getFunction
CreateReturn(handle) ==
    /\ Depth > 0
    /\ Top.pc = "create"
    /\ handle # NULL => Top.cstep = "nonudt"
    /\ Top.cstep # "failed"
    /\ LET self == Top.self
           oid == Top.funcOid
           fv == Top.forValidator
           outcome == CreateOutcome(handle, heap[self].isUDT, fv)
       IN  CASE outcome = "complete" ->
                  /\ heap' = IF handle # NULL
                             THEN [heap EXCEPT ![self].methodHandle = handle]
                             ELSE heap
                  /\ s_funcMap' = MapAfterCreate(oid, self)
                  /\ stack' = SetTop([Top EXCEPT !.function = self, !.self = NULL,
                                        !.cstep = IF fv THEN "returned" ELSE "none",
                                        !.pc = IF fv THEN "return" ELSE "invoke"])
                  /\ lastLookup' = [lastLookup EXCEPT ![oid] = IF fv THEN NULL ELSE self]
                  /\ effects' = NoEffects
             [] outcome = "null" ->
                  /\ heap' = HeapAfterPfree(heap, self)
                  /\ s_funcMap' = MapAfterCreate(oid, NULL)
                  /\ stack' = SetTop([Top EXCEPT !.function = NULL, !.self = NULL,
                                        !.cstep = "returned", !.pc = "return"])
                  /\ lastLookup' = IF fv THEN [lastLookup EXCEPT ![oid] = NULL]
                                   ELSE lastLookup
                  /\ effects' = Released({self})
             [] OTHER ->
                  /\ heap' = HeapAfterPfree(heap, self)
                  /\ stack' = SetTop([Top EXCEPT !.self = NULL, !.cstep = "returned",
                                        !.pc = "error"])
                  /\ effects' = Released({self})
                  /\ UNCHANGED <<s_funcMap, lastLookup>>
    /\ UNCHANGED areaVars

\* Function.create threw: Function_create's PG_CATCH
CreateThrow ==
    /\ Depth > 0
    /\ Top.pc = "create"
    /\ heap' = HeapAfterPfree(heap, Top.self)
    /\ stack' = SetTop([Top EXCEPT !.self = NULL, !.cstep = "threw", !.pc = "error"])
    /\ effects' = Released({Top.self})
    /\ UNCHANGED <<s_funcMap, areaVars, lastLookup>>

Function_clearFunctionCache ==
    /\ Depth > 0
    /\ ReentryPoint(Top)
    /\ s_funcMap' = [o \in Oids |->
                       IF s_funcMap[o] # NULL /\ Function_inUse(s_funcMap[o])
                       THEN s_funcMap[o] ELSE NULL]
    /\ heap' = [d \in Descs |->
                  IF (\E o \in Oids : s_funcMap[o] = d) /\ ~Function_inUse(d)
                  THEN ZeroFunction ELSE heap[d]]
    /\ lastLookup' = NoLookups
    /\ effects' = Released({d \in Descs : (\E o \in Oids : s_funcMap[o] = d)
                                           /\ ~Function_inUse(d)})
    /\ UNCHANGED <<stack, areaVars>>

\* ------------------------------------------------------ store callbacks
UdtTags == {"i", "o", "r", "s", "x"}

UdtFunctionFor_DefaultInput(funcInitial) ==
    CASE funcInitial = "o" -> "UDT_output"
      [] funcInitial = "r" -> "UDT_receive"
      [] funcInitial = "s" -> "UDT_send"
      [] OTHER -> "UDT_input"

\* switch ( funcInitial ): "none" stands for the default branch, elog(ERROR)
UdtFunctionFor(funcInitial) ==
    CASE funcInitial = "i" -> "UDT_input"
      [] funcInitial = "o" -> "UDT_output"
      [] funcInitial = "r" -> "UDT_receive"
      [] funcInitial = "s" -> "UDT_send"
      [] OTHER -> "none"

NumPrims(types) == Cardinality({i \in 1..Len(types) : passAsPrimitive(types[i])})

\* Function._storeToNonUDT, called by the guest during Function.create
StoreToNonUDT ==
    /\ Depth > 0
    /\ Top.pc = "create"
    /\ Top.cstep = "none"
    /\ ProcCatalog(Top.funcOid).kind # "udt"
    /\ LET c == ProcCatalog(Top.funcOid)
           primParams == NumPrims(c.paramTypes)
           refParams == Len(c.paramTypes) - primParams
           out == Type_isOutParameter(c.returnType)
       IN  heap' = [heap EXCEPT ![Top.self] =
                      [@ EXCEPT !.isUDT = FALSE, !.readOnly = c.readOnly,
                                !.schemaLoader = 1, !.clazz = 1,
                                !.isMultiCall = c.isMultiCall, !.typeMap = 1,
                                !.returnType = c.returnType,
                                !.paramTypes = c.paramTypes,
                                !.numRefParams =
                                    (IF out /\ ~c.isMultiCall
                                     THEN refParams + 1 ELSE refParams) % 65536,
                                !.numPrimParams = primParams % 65536]]
    /\ stack' = SetTop([Top EXCEPT !.cstep = "nonudt"])
    /\ effects' = NoEffects
    /\ UNCHANGED <<s_funcMap, areaVars, lastLookup>>

\* the Java types an explicit signature may name for a parameter or return
ReplTypes == {"int", "int[]", "Object"}

ReconciledCounts_OneSided(origType, replType, numRef, numPrim) ==
    IF passAsPrimitive(origType) # passAsPrimitive(replType)
    THEN [ref |-> (numRef + 1) % 65536, prim |-> numPrim]
    ELSE [ref |-> numRef, prim |-> numPrim]

\* the counts after paramTypes[index] = replType; both are uint16_t
ReconciledCounts(origType, replType, numRef, numPrim) ==
    IF passAsPrimitive(origType) # passAsPrimitive(replType)
    THEN IF Type_isPrimitive(replType)
         THEN [ref |-> (numRef - 1) % 65536, prim |-> (numPrim + 1) % 65536]
         ELSE [ref |-> (numRef + 1) % 65536, prim |-> (numPrim - 1) % 65536]
    ELSE [ref |-> numRef, prim |-> numPrim]

\* the 0-based position in explicitTypes of the Java type name to use
ExplicitPosition(index, resolvedLength) ==
    IF index = -2 THEN 0
    ELSE IF index = -1 THEN resolvedLength - 1
    ELSE index

ReplacementType_AlwaysIn(candidate, origType, canReplace, index) ==
    IF canReplace THEN candidate ELSE Type_getCoerceIn(candidate, origType)

\* the type stored: the candidate itself when Type_canReplaceType, else an
\* adapter around it, built by getCoerceOut for index -2 only
ReplacementType(candidate, origType, canReplace, index) ==
    IF canReplace THEN candidate
    ELSE IF index = -2 THEN Type_getCoerceOut(candidate, origType)
    ELSE Type_getCoerceIn(candidate, origType)

\* Function._reconcileTypes, called by the guest during Function.create
\* after _storeToNonUDT: index -1 or -2 replaces the return type, any other
\* index the parameter type at that position. resolvedTypes has one element
\* per parameter and one for the return type; explicitTypes is as long, or
\* has the one element for index -2. canReplace is what Type_canReplaceType
\* answers for the candidate
ReconcileTypes(index, explicitTypes, canReplace) ==
    /\ Depth > 0
    /\ Top.pc = "create"
    /\ Top.cstep = "nonudt"
    /\ Top.nrec < MaxReconcile
    /\ index < Len(heap[Top.self].paramTypes)
    /\ Len(explicitTypes) =
         IF index = -2 THEN 1 ELSE Len(heap[Top.self].paramTypes) + 1
    /\ LET self == heap[Top.self]
           actOnReturnType == index = -1 \/ index = -2
           origType == IF actOnReturnType THEN self.returnType
                       ELSE self.paramTypes[index + 1]
           javaName == explicitTypes[
                          ExplicitPosition(index, Len(self.paramTypes) + 1) + 1]
           replType == ReplacementType(javaName, origType, canReplace, index)
           counts == ReconciledCounts(origType, replType,
                                      self.numRefParams, self.numPrimParams)
       IN  heap' = [heap EXCEPT ![Top.self] =
                      IF actOnReturnType
                      THEN [@ EXCEPT !.returnType = replType]
                      ELSE [@ EXCEPT !.paramTypes[index + 1] = replType,
                                     !.numRefParams = counts.ref,
                                     !.numPrimParams = counts.prim]]
    /\ stack' = SetTop([Top EXCEPT !.nrec = @ + 1])
    /\ effects' = NoEffects
    /\ UNCHANGED <<s_funcMap, areaVars, lastLookup>>

UdtStoreApplies_Always(typisdefined) == TRUE

\* if ( pgType->typisdefined ): nothing is stored for a type that is
\* still a shell
UdtStoreApplies(typisdefined) == typisdefined

\* Function._storeToUDT, called by the guest during Function.create
StoreToUDT(typisdefined, funcInitial) ==
    /\ Depth > 0
    /\ Top.pc = "create"
    /\ Top.cstep = "none"
    /\ ProcCatalog(Top.funcOid).kind = "udt"
    /\ IF UdtStoreApplies(typisdefined)
       THEN /\ heap' = [heap EXCEPT ![Top.self] =
                          [@ EXCEPT !.isUDT = TRUE,
                                    !.readOnly = ProcCatalog(Top.funcOid).readOnly,
                                    !.schemaLoader = 1, !.clazz = 1, !.udt = 1,
                                    !.udtFunction = UdtFunctionFor(funcInitial)]]
            /\ stack' = SetTop([Top EXCEPT
                                  !.cstep = IF UdtFunctionFor(funcInitial) = "none"
                                            THEN "failed"
                                            ELSE IF typisdefined THEN "udt" ELSE "shell",
                                  !.udtTag = IF typisdefined THEN funcInitial
                                             ELSE "none"])
       ELSE /\ stack' = SetTop([Top EXCEPT !.cstep = "shell"])
            /\ UNCHANGED heap
    /\ effects' = NoEffects
    /\ UNCHANGED <<s_funcMap, areaVars, lastLookup>>

\* ------------------------------------------------------- parameter area
NeedPush_Never(cc) == FALSE

\* if ( 0 != *s_countCheck )
NeedPush(cc) == cc # 0

\* ParameterFrame.push: a private copy of the area, tagged (history) with
\* the depth of the call that pushed it
ParameterFrame_push(owner, header) ==
    Append(paramFrames, [cc |-> header, prims |-> s_primitiveParameters,
                         refs |-> s_referenceParameters, owner |-> owner])

HeaderAtPush_AfterWrite(old, new) == new

\* the push stands before the assignment to *s_countCheck, so the frame
\* it saves carries the header found on entry
HeaderAtPush(old, new) == old

SkipParameterConversion_Never(isMultiCall, firstCall) == FALSE

\* SRF_IS_FIRSTCALL() decides whether a multi-call function marshals
SkipParameterConversion(isMultiCall, firstCall) == isMultiCall /\ ~firstCall

PushedFlag_Forgotten(old, pushed) == old

\* currentInvocation->pushedFrame = true, only in the branch that pushed
PushedFlag(old, pushed) == IF pushed THEN TRUE ELSE old

\* Function_invoke up to the parameter loop
InvokeBegin(firstCall) ==
    /\ Depth > 0
    /\ Top.pc = "invoke"
    /\ ~Top.forTrigger
    /\ heap[Top.function].isUDT \/ ~heap[Top.function].isMultiCall => firstCall
    /\ effects' = NoEffects
    /\ LET self == heap[Top.function]
       IN  IF self.isUDT \/ SkipParameterConversion(self.isMultiCall, firstCall)
           THEN /\ stack' = SetTop([Top EXCEPT !.pc = "running", !.isnull = FALSE,
                                                !.firstCall = firstCall])
                /\ UNCHANGED areaVars
           ELSE /\ s_countCheck' = COUNTCHECK(self.numRefParams, self.numPrimParams)
                /\ paramFrames' = IF NeedPush(s_countCheck)
                                  THEN ParameterFrame_push(Depth,
                                           HeaderAtPush(s_countCheck, s_countCheck'))
                                  ELSE paramFrames
                /\ stack' = SetTop([Top EXCEPT
                                      !.pc = "marshal", !.isnull = FALSE,
                                      !.firstCall = firstCall,
                                      !.pushedFrame = PushedFlag(@, NeedPush(s_countCheck)),
                                      !.idx = 0, !.refIdx = 0, !.primIdx = 0])
                /\ UNCHANGED <<s_primitiveParameters, s_referenceParameters>>
    /\ UNCHANGED <<heap, s_funcMap, lastLookup>>

PrimsAfterArg_SkipNull(prims, primIdx, passPrimitive, isNull, coerced) ==
    IF passPrimitive /\ ~isNull THEN [prims EXCEPT ![primIdx] = coerced] ELSE prims

PrimsAfterArg(prims, primIdx, passPrimitive, isNull, coerced) ==
    IF passPrimitive
    THEN [prims EXCEPT ![primIdx] = IF isNull THEN 0 ELSE coerced]
    ELSE prims

RefsAfterArg(refs, refIdx, passPrimitive, isNull, coerced) ==
    IF ~passPrimitive /\ ~isNull THEN [refs EXCEPT ![refIdx] = coerced] ELSE refs

\* One turn of Function_invoke's parameter loop
MarshalArg(isNull, d) ==
    /\ Depth > 0
    /\ Top.pc = "marshal"
    /\ ~Top.forTrigger
    /\ Top.idx < NArgs(Top)
    /\ isNull => d = 5
    /\ LET paramType == heap[Top.function].paramTypes[Top.idx + 1]
           passPrimitive == passAsPrimitive(paramType)
           realType == IF Type_isDynamic(paramType)
                       THEN Type_getRealType(paramType) ELSE paramType
           coerced == Type_coerceDatum(realType, d)
       IN  /\ s_primitiveParameters' =
                PrimsAfterArg(s_primitiveParameters, Top.primIdx, passPrimitive,
                              isNull, coerced)
           /\ s_referenceParameters' =
                RefsAfterArg(s_referenceParameters, Top.refIdx, passPrimitive,
                             isNull, coerced)
           /\ stack' = SetTop([Top EXCEPT
                !.idx = @ + 1,
                !.primIdx = IF passPrimitive THEN @ + 1 ELSE @,
                !.refIdx = IF passPrimitive THEN @ ELSE @ + 1,
                !.args = Append(@, [null |-> isNull, val |-> IF isNull THEN 0 ELSE d]),
                !.coerced = IF isNull THEN @ ELSE @ \cup {Top.idx},
                !.resolved = IF ~isNull /\ Type_isDynamic(paramType)
                             THEN @ \cup {Top.idx} ELSE @])
    /\ effects' = NoEffects
    /\ UNCHANGED <<heap, s_funcMap, s_countCheck, paramFrames, lastLookup>>

TriggerHeader_FromCounts(numRefParams, numPrimParams) ==
    COUNTCHECK(numRefParams, numPrimParams)

\* *s_countCheck = COUNTCHECK(1, 0): the Descriptor's counts play no part
TriggerHeader(numRefParams, numPrimParams) == COUNTCHECK(1, 0)

\* Function_invokeTrigger up to Type_invoke
TriggerBegin(jtdOk) ==
    /\ Depth > 0
    /\ Top.pc = "invoke"
    /\ Top.forTrigger
    /\ IF jtdOk
       THEN /\ s_countCheck' = TriggerHeader(heap[Top.function].numRefParams,
                                              heap[Top.function].numPrimParams)
            /\ paramFrames' = IF NeedPush(s_countCheck)
                              THEN ParameterFrame_push(Depth,
                                       HeaderAtPush(s_countCheck, s_countCheck'))
                              ELSE paramFrames
            /\ s_referenceParameters' =
                 [s_referenceParameters EXCEPT ![0] = TriggerDataObj]
            /\ stack' = SetTop([Top EXCEPT
                                  !.pc = "marshal",
                                  !.pushedFrame = PushedFlag(@, NeedPush(s_countCheck))])
            /\ UNCHANGED s_primitiveParameters
       ELSE /\ stack' = SetTop([Top EXCEPT !.pc = "return", !.retVal = 0])
            /\ UNCHANGED areaVars
    /\ effects' = NoEffects
    /\ UNCHANGED <<heap, s_funcMap, lastLookup>>

\* pljava_Function_setParameter: only index -1 with a reference parameter
SetParameterOK_IndexOnly(index, numRefs) == index = -1

SetParameterOK(index, numRefs) == ~(index # -1 \/ 1 > numRefs)

\* JNI_setObjectArrayElement(s_referenceParameters, numRefs - 1, value.l);
\* the model keeps the first AreaSlots slots of the array
RefsAfterSetParameter(refs, numRefs, value) ==
    IF numRefs - 1 \in DOMAIN refs
    THEN [refs EXCEPT ![numRefs - 1] = value] ELSE refs

\* pljava_Function_setParameter, called once the parameter loop is done and
\* before the guest is entered; setp (history) keeps the arguments passed
pljava_Function_setParameter(index, value) ==
    /\ Depth > 0
    /\ Top.pc = "marshal"
    /\ ~Top.forTrigger
    /\ Top.idx = NArgs(Top)
    /\ Top.setp = <<>>
    /\ LET numRefs == heap[Top.function].numRefParams
       IN  IF SetParameterOK(index, numRefs)
           THEN /\ s_referenceParameters' =
                     RefsAfterSetParameter(s_referenceParameters, numRefs, value)
                /\ stack' = SetTop([Top EXCEPT !.setp = <<index, value>>])
           ELSE /\ stack' = SetTop([Top EXCEPT !.pc = "error", !.setp = <<index, value>>,
                                                !.idx = 0, !.refIdx = 0, !.primIdx = 0,
                                                !.args = <<>>, !.coerced = {},
                                                !.resolved = {}])
                /\ UNCHANGED s_referenceParameters
    /\ effects' = NoEffects
    /\ UNCHANGED <<heap, s_funcMap, s_countCheck, s_primitiveParameters,
                   paramFrames, lastLookup>>

\* Type_invoke of an out-parameter return type passes the result set as the
\* last reference parameter
Composite_invoke ==
    /\ Depth > 0
    /\ Top.pc = "marshal"
    /\ Type_isOutParameter(heap[Top.function].returnType)
    /\ ~heap[Top.function].isMultiCall
    /\ pljava_Function_setParameter(-1, ResultSetObj)

HeaderRefs(cc) == (cc % 65536) \div 256

\* Type_invoke enters the guest, which fetches its arguments from the area:
\* the header returns to zero and the fetched references are dropped
GuestEntry ==
    /\ Depth > 0
    /\ Top.pc = "marshal"
    /\ Top.idx = NArgs(Top)
    /\ LET self == heap[Top.function]
           out == ~Top.forTrigger /\ Type_isOutParameter(self.returnType)
                  /\ ~self.isMultiCall
       IN  /\ out => Top.setp # <<>>
           /\ s_referenceParameters' =
                [i \in Slots |-> IF i < HeaderRefs(s_countCheck)
                                 THEN NULL ELSE s_referenceParameters[i]]
    /\ s_countCheck' = 0
    /\ stack' = SetTop([Top EXCEPT !.pc = "running", !.idx = 0, !.refIdx = 0,
                                    !.primIdx = 0, !.args = <<>>,
                                    !.coerced = {}, !.resolved = {}, !.setp = <<>>])
    /\ effects' = NoEffects
    /\ UNCHANGED <<heap, s_funcMap, s_primitiveParameters, paramFrames, lastLookup>>

\* The guest method returns normally
GuestReturn(v) ==
    /\ Depth > 0
    /\ Top.pc = "running"
    /\ ~Top.forTrigger
    /\ LET self == heap[Top.function]
       IN  IF ~self.isUDT /\ ~self.isMultiCall /\ passAsPrimitive(self.returnType)
           THEN /\ s_primitiveParameters' = [s_primitiveParameters EXCEPT ![0] = v]
                /\ stack' = SetTop([Top EXCEPT !.pc = "return",
                                                !.retVal = s_primitiveParameters'[0]])
           ELSE /\ v = 5
                /\ stack' = SetTop([Top EXCEPT !.pc = "return",
                                                !.retVal = ObjBase + v])
                /\ UNCHANGED s_primitiveParameters
    /\ effects' = NoEffects
    /\ UNCHANGED <<heap, s_funcMap, s_countCheck, s_referenceParameters,
                   paramFrames, lastLookup>>

\* A coercion or the guest method fails: the error unwinds to the call handler
GuestThrow ==
    /\ Depth > 0
    /\ ~Top.forTrigger
    /\ IF Top.pc = "marshal" THEN Top.idx < NArgs(Top) ELSE Top.pc = "running"
    /\ stack' = SetTop([Top EXCEPT !.pc = "error", !.idx = 0, !.refIdx = 0,
                                    !.primIdx = 0, !.args = <<>>,
                                    !.coerced = {}, !.resolved = {}])
    /\ effects' = NoEffects
    /\ UNCHANGED <<heap, s_funcMap, areaVars, lastLookup>>

TriggerIsNull_AsComputed(guestNull) == guestNull

\* fcinfo->isnull = false, after Type_invoke and again after
\* getTriggerReturnTuple, both of which may have set it
TriggerIsNull(guestNull) == FALSE

TriggerPostSteps_ExtractFirst(pending) ==
    IF pending
    THEN <<>>
    ELSE <<"getTriggerReturnTuple", "Invocation_assertConnect",
           "Invocation_switchToUpperContext", "MemoryContextSwitchTo">>

\* what follows if(JNI_exceptionCheck()): nothing when a failure is pending
TriggerPostSteps(pending) ==
    IF pending
    THEN <<>>
    ELSE <<"Invocation_assertConnect", "Invocation_switchToUpperContext",
           "getTriggerReturnTuple", "MemoryContextSwitchTo">>

\* The host operations in the order given, each with what holds once it is
\* done: whether an execution context (SPI) is connected and which memory
\* context is current; saved is currCtx, the context
\* Invocation_switchToUpperContext returned
RECURSIVE TriggerPostRun(_, _, _, _)
TriggerPostRun(ops, connected, ctx, saved) ==
    IF ops = <<>>
    THEN <<>>
    ELSE LET op == Head(ops)
             nowConnected == connected \/ op = "Invocation_assertConnect"
             nowCtx == CASE op = "Invocation_switchToUpperContext" -> "upper"
                         [] op = "MemoryContextSwitchTo" -> saved
                         [] OTHER -> ctx
             nowSaved == IF op = "Invocation_switchToUpperContext" THEN ctx ELSE saved
         IN  <<[op |-> op, connected |-> nowConnected, ctx |-> nowCtx]>>
             \o TriggerPostRun(Tail(ops), nowConnected, nowCtx, nowSaved)

\* Function_invokeTrigger after Type_invoke; tuple is what the guest's
\* trigger data yields (0: no row), guestNull what guest-side code left in
\* the is-null flag; the invoked method may or may not have connected SPI,
\* and returns in its own memory context
TriggerReturn(pending, tuple, guestNull) ==
    /\ Depth > 0
    /\ Top.pc = "running"
    /\ Top.forTrigger
    /\ \E guestConnected \in BOOLEAN :
         LET run == TriggerPostRun(TriggerPostSteps(pending), guestConnected,
                                   "callee", "none")
         IN  stack' = SetTop([Top EXCEPT
                          !.pc = "return",
                          !.isnull = TriggerIsNull(guestNull),
                          !.retVal = IF \E k \in 1..Len(run) :
                                          run[k].op = "getTriggerReturnTuple"
                                     THEN tuple ELSE 0,
                          !.trig = [pending |-> pending, guestNull |-> guestNull,
                                    steps |-> run]])
    /\ effects' = NoEffects
    /\ UNCHANGED <<heap, s_funcMap, areaVars, lastLookup>>

\* Invocation_popInvocation pops the saved area of a call that pushed one
PopsFrame(pushedFrame) == pushedFrame

\* The call handler's exit, normal or in PG_CATCH: Invocation_popInvocation
CallExit ==
    /\ Depth > 0
    /\ Top.pc \in {"return", "error"}
    /\ IF PopsFrame(Top.pushedFrame)
       THEN /\ paramFrames # <<>>
            /\ LET saved == paramFrames[Len(paramFrames)]
               IN  /\ s_countCheck' = saved.cc
                   /\ s_primitiveParameters' = saved.prims
                   /\ s_referenceParameters' = saved.refs
            /\ paramFrames' = SubSeq(paramFrames, 1, Len(paramFrames) - 1)
       ELSE UNCHANGED areaVars
    /\ stack' = SubSeq(stack, 1, Depth - 1)
    /\ effects' = [released |-> {}, popped |-> PopsFrame(Top.pushedFrame),
                   exited |-> Top.pc]
    /\ UNCHANGED <<heap, s_funcMap, lastLookup>>

\* ---------------------------------------------------------- specification
\* Lookup and construction, for calls and validations of the given functions
\* entered from the host or from guest code at the given positions
Construct(oids, validating, points) ==
    \/ \E oid \in oids, fv \in validating : CallEnter(oid, fv, points)
    \/ Function_getFunction
    \/ StoreToNonUDT
    \/ \E def \in BOOLEAN, tag \in UdtTags : StoreToUDT(def, tag)
    \/ \E handle \in {NULL, 1} : CreateReturn(handle)
    \/ CreateThrow

\* Function_invoke around the guest method, and the call handler's exit
Invoke(vals, firsts) ==
    \/ \E firstCall \in firsts : InvokeBegin(firstCall)
    \/ GuestEntry
    \/ \E v \in vals : GuestReturn(v)
    \/ GuestThrow
    \/ CallExit

\* The registry: calls and validations of a UDT function and of a function
\* without parameters, reentered and invalidated from guest code that runs
\* in Function.create or in the invoked method
Next ==
    \/ Construct({3, 5}, BOOLEAN, {"create", "running"})
    \/ Invoke({5}, {TRUE})
    \/ Composite_invoke
    \/ Function_clearFunctionCache

Spec == Init /\ [][Next]_vars

\* The parameter area: calls of every kind of function, first and later calls
\* of a result sequence alike, reentered from guest code that runs in
\* Function.create, in a coercion or in the invoked method
NextArea ==
    \/ Construct({1, 2, 3, 4}, {FALSE}, {"create", "marshal", "running"})
    \/ Invoke(Vals, BOOLEAN)
    \/ \E isNull \in BOOLEAN, d \in Vals : MarshalArg(isNull, d)
    \/ \E jtdOk \in BOOLEAN : TriggerBegin(jtdOk)
    \/ \E pending \in BOOLEAN, tuple \in {0, 1}, guestNull \in BOOLEAN :
          TriggerReturn(pending, tuple, guestNull)

SpecArea == Init /\ [][NextArea]_vars

\* The slot layout: calls of a function of (int, Object, int), reentered from
\* guest code that runs in a coercion, with arguments that may be null and
\* coercions that may fail
NextLayout ==
    \/ CallEnter(6, FALSE, {"marshal"})
    \/ Function_getFunction
    \/ StoreToNonUDT
    \/ CreateReturn(1)
    \/ CreateThrow
    \/ InvokeBegin(TRUE)
    \/ \E isNull \in BOOLEAN, d \in Vals : MarshalArg(isNull, d)
    \/ GuestEntry
    \/ \E v \in Vals : GuestReturn(v)
    \/ GuestThrow
    \/ CallExit

SpecLayout == Init /\ [][NextLayout]_vars

\* Type reconciliation: calls, one at a time, of functions of (int, Object),
\* of no parameters with a composite result and of (int) with a composite
\* result sequence, whose construction reconciles parameter and return types
\* with the types an explicit signature names
NextTypes ==
    \/ \E oid \in {1, 5, 8} : CallEnter(oid, FALSE, {})
    \/ Function_getFunction
    \/ StoreToNonUDT
    \/ \E index \in -2..1, replType \in ReplTypes, len \in 1..3 :
          ReconcileTypes(index, [i \in 1..len |-> replType], TRUE)
    \/ CreateReturn(1)
    \/ CreateThrow
    \/ InvokeBegin(TRUE)
    \/ MarshalArg(FALSE, 5)
    \/ Composite_invoke
    \/ GuestEntry
    \/ GuestReturn(5)
    \/ GuestThrow
    \/ CallExit

SpecTypes == Init /\ [][NextTypes]_vars

\* The widest call: a function of MaxParams reference parameters with an
\* out-parameter return, called with null arguments and reentered from guest
\* code that runs between the marshaling of two arguments
NextWide ==
    \/ CallEnter(7, FALSE, {"marshal"})
    \/ Function_getFunction
    \/ StoreToNonUDT
    \/ CreateReturn(1)
    \/ CreateThrow
    \/ InvokeBegin(TRUE)
    \/ MarshalArg(TRUE, 5)
    \/ Composite_invoke
    \/ GuestEntry
    \/ GuestReturn(5)
    \/ GuestThrow
    \/ CallExit

SpecWide == Init /\ [][NextWide]_vars

\* The out-parameter slot: calls, one at a time, of a function of (int) that
\* counts no reference and of a function of (Object) with an out-parameter
\* return, in which pljava_Function_setParameter is called with any index
NextSetParameter ==
    \/ \E oid \in {8, 9} : CallEnter(oid, FALSE, {})
    \/ Function_getFunction
    \/ StoreToNonUDT
    \/ CreateReturn(1)
    \/ CreateThrow
    \/ InvokeBegin(TRUE)
    \/ \E isNull \in BOOLEAN, d \in Vals : MarshalArg(isNull, d)
    \/ \E index \in {-2, -1, 0, 1}, value \in {NULL, ResultSetObj} :
          pljava_Function_setParameter(index, value)
    \/ GuestEntry
    \/ \E v \in Vals : GuestReturn(v)
    \/ GuestThrow
    \/ CallExit

SpecSetParameter == Init /\ [][NextSetParameter]_vars

\* Registered Descriptors: calls of a trigger function and of a function of
\* (Object) with an out-parameter return, constructed with reconciliations,
\* reentered and invalidated from guest code that runs in the invoked method
NextRegistered ==
    \/ \E oid \in {4, 9} : CallEnter(oid, FALSE, {"running"})
    \/ Function_getFunction
    \/ StoreToNonUDT
    \/ \E index \in -2..0, replType \in ReplTypes, len \in 1..2 :
          ReconcileTypes(index, [i \in 1..len |-> replType], TRUE)
    \/ CreateReturn(1)
    \/ CreateThrow
    \/ InvokeBegin(TRUE)
    \/ MarshalArg(FALSE, 5)
    \/ Composite_invoke
    \/ TriggerBegin(TRUE)
    \/ GuestEntry
    \/ GuestReturn(5)
    \/ GuestThrow
    \/ \E pending \in BOOLEAN : TriggerReturn(pending, 1, FALSE)
    \/ CallExit
    \/ Function_clearFunctionCache

SpecRegistered == Init /\ [][NextRegistered]_vars

\* The header of every signature: the parameter counts drawn, at both ends
\* of the range and on either side of the header's sign bit
HeaderParamCounts == {0, 1, 2, 127, 128, MaxParams - 1, MaxParams}

\* the Descriptor that _storeToNonUDT and Function_create leave for a
\* function of prims int parameters followed by refs Object parameters,
\* returning an out-parameter composite or an int
SignatureDescriptor(prims, refs, out) ==
    [ZeroFunction EXCEPT
        !.allocated = TRUE, !.schemaLoader = 1, !.clazz = 1, !.typeMap = 1,
        !.methodHandle = 1,
        !.paramTypes = [i \in 1..(prims + refs) |->
                          IF i <= prims THEN "int" ELSE "Object"],
        !.returnType = IF out THEN "composite" ELSE "int",
        !.numRefParams = (IF out THEN refs + 1 ELSE refs) % 65536,
        !.numPrimParams = prims % 65536]

\* the Registry holds the Descriptor of one function, of any signature drawn
InitHeader ==
    /\ \E n \in HeaderParamCounts, out \in BOOLEAN :
         \E prims \in 0..n :
            heap = [d \in Descs |->
                      IF d = 1 THEN SignatureDescriptor(prims, n - prims, out)
                      ELSE ZeroFunction]
    /\ s_funcMap = [o \in Oids |-> IF o = 5 THEN 1 ELSE NULL]
    /\ stack = <<>>
    /\ s_countCheck = 0
    /\ s_primitiveParameters = [i \in Slots |-> 0]
    /\ s_referenceParameters = [i \in Slots |-> NULL]
    /\ paramFrames = <<>>
    /\ lastLookup = [o \in Oids |-> NULL]
    /\ effects = NoEffects

\* calls of the registered function, one at a time, up to the header store
\* of Function_invoke and a failure of the first argument's coercion
NextHeader ==
    \/ CallEnter(5, FALSE, {})
    \/ Function_getFunction
    \/ InvokeBegin(TRUE)
    \/ GuestThrow
    \/ CallExit

SpecHeader == InitHeader /\ [][NextHeader]_vars

\* the explicitTypes arrays passed for a function of two parameters
ExplicitArrays == [1..1 -> ReplTypes] \cup [1..3 -> ReplTypes]

\* Coercing adapters: calls, one at a time, of a function of (int, Object)
\* whose construction reconciles types with candidates that can or cannot
\* stand in for the original
NextCoerce ==
    \/ CallEnter(1, FALSE, {})
    \/ Function_getFunction
    \/ StoreToNonUDT
    \/ \E index \in -2..1, explicitTypes \in ExplicitArrays, canReplace \in BOOLEAN :
          ReconcileTypes(index, explicitTypes, canReplace)
    \/ CreateReturn(1)
    \/ CreateThrow
    \/ InvokeBegin(TRUE)
    \/ MarshalArg(FALSE, 5)
    \/ GuestEntry
    \/ GuestReturn(5)
    \/ GuestThrow
    \/ CallExit

SpecCoerce == Init /\ [][NextCoerce]_vars

\* ------------------------------------------------------------ properties

\* the top frame took a step of its own (it was neither entered nor left)
TopStepped == Len(stack') = Depth /\ stack'[Depth] # Top

\* C1: of two consecutive non-validator lookups of an Oid, with no cache
\* clear and no validator lookup between them, the second returns the
\* Descriptor the first returned and constructs nothing
RegistryIdempotence ==
    [][ (/\ Depth > 0
         /\ Top.pc = "lookup"
         /\ ~Top.forValidator
         /\ lastLookup[Top.funcOid] # NULL
         /\ TopStepped)
        => (/\ stack'[Depth].function = lastLookup[Top.funcOid]
            /\ stack'[Depth].pc = "invoke"
            /\ stack'[Depth].self = NULL
            /\ heap' = heap
            /\ s_funcMap' = s_funcMap) ]_vars

\* a recursive call has looked up the Oid its caller looked up, and holds
\* the caller's Descriptor
RecursiveLookupHit ==
    /\ Depth = 2
    /\ stack[2].pc = "invoke"
    /\ stack[2].funcOid = stack[1].funcOid
    /\ stack[2].function # NULL
    /\ stack[2].function = stack[1].function
    /\ lastLookup[stack[2].funcOid] = stack[2].function

\* the step was Function_clearFunctionCache: nothing else leaves the
\* Invocation stack as it was
ClearStepped == stack' = stack /\ vars' # vars

\* C2: Function_clearFunctionCache keeps every in-use Descriptor in the
\* Registry under its key with its fields as they were, and releases every
\* other Registry entry, which the new Registry no longer holds
InUseSurvival ==
    [][ ClearStepped =>
        \A o \in Oids :
          LET d == s_funcMap[o]
          IN  IF d = NULL
              THEN s_funcMap'[o] = NULL
              ELSE IF \E i \in 1..Depth : stack[i].function = d
                   THEN /\ s_funcMap'[o] = d
                        /\ heap'[d] = heap[d]
                        /\ d \notin effects'.released
                   ELSE /\ s_funcMap'[o] = NULL
                        /\ d \in effects'.released
                        /\ ~heap'[d].allocated ]_vars

\* a clear issued from a running call has released one entry and kept the
\* entry of the call that issued it
ClearKeptAndReleased ==
    /\ Depth = 1
    /\ Top.pc = "running"
    /\ effects.released # {}
    /\ \E o \in Oids : s_funcMap[o] # NULL /\ s_funcMap[o] = Top.function

\* C3: no frame on the Invocation stack references a released Descriptor
NoFrameReferencesReleased ==
    \A i \in 1..Depth :
        stack[i].function # NULL =>
            /\ heap[stack[i].function].allocated
            /\ stack[i].function \notin effects.released

\* a clear issued by a nested call has released an entry while the outer
\* call's Descriptor is still live
NestedClearSparedCaller ==
    /\ Depth = 2
    /\ Top.pc \in {"create", "running", "marshal"}
    /\ effects.released # {}
    /\ stack[1].function # NULL
    /\ stack[1].function # Top.function
    /\ heap[stack[1].function].allocated

\* Function_create has ended for the top frame, by return or by throw
CreateEnded ==
    /\ Depth > 0
    /\ Top.pc = "create"
    /\ TopStepped
    /\ stack'[Depth].pc # "create"

\* what Function_getFunction hands back has a method handle or is a UDT function
CompleteAfter(func) ==
    /\ func # NULL
    /\ heap'[func].allocated
    /\ heap'[func].methodHandle # NULL \/ heap'[func].isUDT

\* C4: a lookup with forValidator = true never reads the Registry and always
\* runs construction; it writes the Registry only when construction returns
\* a complete Descriptor, and otherwise leaves the Registry as it was
ValidatorBypass ==
    [][ (Depth > 0 /\ Top.forValidator /\ TopStepped) =>
        /\ Top.pc = "lookup" =>
             /\ stack'[Depth].pc = "create"
             /\ stack'[Depth].self # NULL
             /\ stack'[Depth].self \notin {s_funcMap[o] : o \in Oids}
             /\ s_funcMap' = s_funcMap
        /\ CreateEnded =>
             LET func == stack'[Depth].function
             IN  IF stack'[Depth].pc = "return" /\ CompleteAfter(func)
                 THEN /\ func = Top.self
                      /\ s_funcMap' = [s_funcMap EXCEPT ![Top.funcOid] = func]
                 ELSE s_funcMap' = s_funcMap ]_vars

\* a validator lookup made under a running call of the same Oid has
\* constructed a second Descriptor and put it in the caller's place
ValidatorReplacedCached ==
    /\ Depth = 2
    /\ stack[2].forValidator
    /\ stack[2].pc = "return"
    /\ stack[2].funcOid = stack[1].funcOid
    /\ stack[1].function # NULL
    /\ stack[2].function # NULL
    /\ stack[2].function # stack[1].function
    /\ s_funcMap[stack[2].funcOid] = stack[2].function

\* C5: Function_getFunction returns null only for a validator lookup whose
\* construction came back incomplete; a non-validator lookup ends with a
\* complete Descriptor or with an error; and whenever construction does not
\* complete the placeholder is released and the Registry is left alone
NullOnlyForValidator ==
    [][ CreateEnded =>
        LET after == stack'[Depth]
            self == Top.self
        IN  /\ (after.pc # "error" /\ after.function = NULL) =>
                  /\ Top.forValidator
                  /\ after.cstep = "returned"
                  /\ ~heap[self].isUDT
            /\ ~Top.forValidator =>
                  \/ after.pc = "error"
                  \/ after.pc = "invoke" /\ after.function = self
                                         /\ CompleteAfter(self)
            /\ after.pc # "error" /\ after.function # NULL =>
                  after.function = self /\ CompleteAfter(self)
            /\ after.function # self =>
                  /\ effects'.released = {self}
                  /\ heap'[self] = ZeroFunction
                  /\ s_funcMap' = s_funcMap ]_vars

\* a non-validator lookup has ended in the fatal error after Function.create
\* returned without a handle, and its placeholder is gone
IncompleteRaisedError ==
    /\ Depth > 0
    /\ ~Top.forValidator
    /\ Top.pc = "error"
    /\ Top.cstep = "returned"
    /\ Top.function = NULL
    /\ effects.released # {}

\* C6: when a call is started while marshaled arguments are in the
\* parameter area (the header is not zero), then once that call has returned
\* and its frame is popped, the header and every primitive and reference
\* slot are what they were just before the call began
ReentrancySaveRestore ==
    [][ (/\ Depth > 0
         /\ Len(stack') = Depth - 1
         /\ Top.entry.cc # 0)
        => (/\ s_countCheck' = Top.entry.cc
            /\ s_primitiveParameters' = Top.entry.prims
            /\ s_referenceParameters' = Top.entry.refs) ]_vars

\* an outer call that had marshaled its first argument is back in its
\* parameter loop after a nested call returned and popped its save
OuterResumedAfterPop ==
    /\ Depth = 1
    /\ effects.popped
    /\ effects.exited = "return"
    /\ Top.pc = "marshal"
    /\ Top.idx = 1
    /\ s_countCheck = COUNTCHECK(1, 1)
    /\ Top.args[1].val # 0
    /\ s_primitiveParameters[0] = Top.args[1].val

\* the calls on the Invocation stack that have pushed a save
Pushers == {i \in 1..Depth : stack[i].pushedFrame}

\* C7: the saved frames are exactly those of the calls on the Invocation
\* stack that recorded pushedFrame, one each and in stack order; so a save
\* goes when its call exits, by return or by unwind, a call that pushed
\* nothing pops nothing, and no save outlives the outermost call
PushPopMatched ==
    /\ Len(paramFrames) = Cardinality(Pushers)
    /\ \A k \in 1..Len(paramFrames) : paramFrames[k].owner \in Pushers
    /\ \A k, l \in 1..Len(paramFrames) :
           k < l => paramFrames[k].owner < paramFrames[l].owner

\* a nested call that had pushed a save was unwound by an error, and the
\* save went with it
UnwindPopped ==
    /\ Depth = 1
    /\ effects.popped
    /\ effects.exited = "error"
    /\ paramFrames = <<>>
    /\ ~Top.pushedFrame

\* Function_invoke or Function_invokeTrigger has started marshaling
MarshalingStarted ==
    /\ Depth > 0
    /\ Top.pc = "invoke"
    /\ TopStepped
    /\ stack'[Depth].pc = "marshal"

\* C8: when Function_invoke (not skipping) or Function_invokeTrigger
\* starts marshaling with a non-zero header, it pushes a frame holding the
\* header and slots as they were before it wrote anything, and records
\* pushedFrame; with a zero header it pushes nothing and records nothing
PushBeforeOverwrite ==
    [][ MarshalingStarted =>
        IF s_countCheck # 0
        THEN /\ paramFrames' = Append(paramFrames,
                                  [cc |-> s_countCheck,
                                   prims |-> s_primitiveParameters,
                                   refs |-> s_referenceParameters,
                                   owner |-> Depth])
             /\ stack'[Depth].pushedFrame
        ELSE /\ paramFrames' = paramFrames
             /\ ~stack'[Depth].pushedFrame ]_vars

\* a nested Function_invoke has pushed the outer call's header and written
\* its own over it
NestedInvokePushed ==
    /\ Depth = 2
    /\ ~Top.forTrigger
    /\ Top.pc = "marshal"
    /\ Top.pushedFrame
    /\ Len(paramFrames) = 1
    /\ paramFrames[1].cc = COUNTCHECK(1, 1)
    /\ s_countCheck = COUNTCHECK(1, 0)

\* C9: an invocation of a multi-call Descriptor that is not the SRF first
\* call leaves the header, every slot and the saved frames as they were,
\* records no push and runs no parameter loop
MultiCallSkip ==
    [][ (/\ Depth > 0
         /\ Top.pc = "invoke"
         /\ ~Top.forTrigger
         /\ TopStepped
         /\ heap[Top.function].isMultiCall
         /\ ~stack'[Depth].firstCall)
        => (/\ s_countCheck' = s_countCheck
            /\ s_primitiveParameters' = s_primitiveParameters
            /\ s_referenceParameters' = s_referenceParameters
            /\ paramFrames' = paramFrames
            /\ stack'[Depth].pushedFrame = Top.pushedFrame
            /\ stack'[Depth].pc = "running") ]_vars

\* a later call of a result sequence runs while an outer call's header is
\* in the area, and has pushed nothing
LaterSrfCallUnderOuter ==
    /\ Depth = 2
    /\ Top.pc = "running"
    /\ ~Top.firstCall
    /\ heap[Top.function].isMultiCall
    /\ s_countCheck = COUNTCHECK(1, 1)
    /\ ~Top.pushedFrame
    /\ paramFrames = <<>>

\* the parameter loop has taken a null argument
NullArgMarshaled ==
    /\ Depth > 0
    /\ Top.pc = "marshal"
    /\ TopStepped
    /\ stack'[Depth].pc = "marshal"
    /\ stack'[Depth].idx = Top.idx + 1
    /\ stack'[Depth].args[Top.idx + 1].null

\* C10: for a null argument the parameter loop writes zero to the next
\* primitive slot and advances the primitive index when the parameter is
\* primitive, advances the reference index and writes no slot when it is a
\* reference, and in neither case coerces the datum or resolves a dynamic type
NullArgument ==
    [][ NullArgMarshaled =>
        LET after == stack'[Depth]
        IN  /\ IF heap[Top.function].paramTypes[Top.idx + 1] = "int"
               THEN /\ s_primitiveParameters' =
                         [s_primitiveParameters EXCEPT ![Top.primIdx] = 0]
                    /\ after.primIdx = Top.primIdx + 1
                    /\ after.refIdx = Top.refIdx
               ELSE /\ s_primitiveParameters' = s_primitiveParameters
                    /\ after.refIdx = Top.refIdx + 1
                    /\ after.primIdx = Top.primIdx
            /\ s_referenceParameters' = s_referenceParameters
            /\ after.coerced = Top.coerced
            /\ after.resolved = Top.resolved ]_vars

\* both arguments of an (int, Object) call were null: one primitive slot
\* holds zero, one reference slot was passed over, nothing was coerced
BothArgsNull ==
    /\ Depth > 0
    /\ Top.pc = "marshal"
    /\ Top.idx = 2
    /\ Top.args[1].null
    /\ Top.args[2].null
    /\ Top.primIdx = 1
    /\ Top.refIdx = 1
    /\ Top.coerced = {}
    /\ s_primitiveParameters[0] = 0

\* C11: while a call marshals, primitive slot k holds the k-th argument in
\* declaration order whose parameter is passed as a primitive (zero when it
\* is null) and reference slot k holds the k-th argument whose parameter is
\* passed as a reference (when it is not null), each class counted from 0
\* independently of the other
SlotLayout ==
    (Depth > 0 /\ Top.pc = "marshal" /\ ~Top.forTrigger) =>
        LET types == heap[Top.function].paramTypes
            IsPrim(j) == types[j] = "int"
            Before(j) == Cardinality({i \in 1..(j - 1) : IsPrim(i) = IsPrim(j)})
            Marshaled == 1..Top.idx
        IN  /\ Top.primIdx = Cardinality({j \in Marshaled : IsPrim(j)})
            /\ Top.refIdx = Cardinality({j \in Marshaled : ~IsPrim(j)})
            /\ \A j \in Marshaled :
                  IF IsPrim(j)
                  THEN s_primitiveParameters[Before(j)] =
                           (IF Top.args[j].null THEN 0 ELSE Top.args[j].val)
                  ELSE \/ Top.args[j].null
                       \/ s_referenceParameters[Before(j)] =
                              ObjBase + Top.args[j].val

\* the arguments (5, an array, 7) of an (int, int[], int) call are
\* marshaled: the ints lie in primitive slots 0 and 1, the array in
\* reference slot 0
MixedArgsMarshaled ==
    /\ Depth = 1
    /\ Top.pc = "marshal"
    /\ heap[Top.function].paramTypes = <<"int", "int[]", "int">>
    /\ Top.idx = 3
    /\ Top.args = <<[null |-> FALSE, val |-> 5], [null |-> FALSE, val |-> 7],
                    [null |-> FALSE, val |-> 7]>>
    /\ s_primitiveParameters[0] = 5
    /\ s_primitiveParameters[1] = 7
    /\ s_referenceParameters[0] = ObjBase + 7

\* a call of the (int, int[], int) function has marshaled (5, null, 7)
MixedCallMarshaled ==
    /\ Depth > 0
    /\ Top.pc = "marshal"
    /\ Top.funcOid = 6
    /\ Top.idx = 3
    /\ Top.args = <<[null |-> FALSE, val |-> 5], [null |-> TRUE, val |-> 0],
                    [null |-> FALSE, val |-> 7]>>

\* C12: whenever a call of a (primitive, reference, primitive) function has
\* marshaled (5, null, 7), the guest is entered with primitive slot 0 = 5,
\* primitive slot 1 = 7, reference slot 0 = null and the header of (1
\* reference, 2 primitives); and a call returning a primitive returns what
\* primitive slot 0 holds after the guest method
EndToEndMixedCall ==
    /\ MixedCallMarshaled =>
          /\ s_primitiveParameters[0] = 5
          /\ s_primitiveParameters[1] = 7
          /\ s_referenceParameters[0] = NULL
          /\ s_countCheck = COUNTCHECK(1, 2)
    /\ (Depth > 0 /\ Top.funcOid = 6 /\ Top.pc = "return") =>
          Top.retVal = s_primitiveParameters[0]

\* the guest is about to be entered for (5, null, 7) while reference slot 0
\* still holds the array an earlier call left there
StaleReferenceForNull ==
    /\ MixedCallMarshaled
    /\ s_referenceParameters[0] # NULL

\* the non-UDT Descriptors whose counts are stored, each with the Oid it
\* describes: those under construction past _storeToNonUDT and those in the
\* Registry
StoredNonUDT ==
    {[d |-> stack[i].self, oid |-> stack[i].funcOid] :
        i \in {j \in 1..Depth : stack[j].pc = "create" /\ stack[j].cstep = "nonudt"}}
    \cup {[d |-> s_funcMap[o], oid |-> o] :
              o \in {q \in Oids : s_funcMap[q] # NULL /\ ~heap[s_funcMap[q]].isUDT}}

ReconcileCountDirection ==
    [][ (/\ Depth > 0
         /\ Top.pc = "create"
         /\ Top.cstep = "nonudt"
         /\ TopStepped
         /\ stack'[Depth].nrec = Top.nrec + 1)
        => LET before == heap[Top.self]
               after == heap'[Top.self]
               ToRef == {i \in 1..Len(before.paramTypes) :
                            before.paramTypes[i] = "int" /\ after.paramTypes[i] # "int"}
               ToPrim == {i \in 1..Len(before.paramTypes) :
                             before.paramTypes[i] # "int" /\ after.paramTypes[i] = "int"}
           IN  /\ after.numRefParams =
                      before.numRefParams + Cardinality(ToRef) - Cardinality(ToPrim)
               /\ after.numPrimParams =
                      before.numPrimParams + Cardinality(ToPrim) - Cardinality(ToRef) ]_vars

\* the only parameter of an (int) function was reconciled to int[]: the
\* Descriptor counts 65535 references and 2 primitives for one array
ArrayCountedAsPrimitive ==
    /\ Depth = 1
    /\ Top.pc = "create"
    /\ Top.funcOid = 8
    /\ Top.nrec = 1
    /\ heap[Top.self].paramTypes = <<"int[]">>
    /\ heap[Top.self].numRefParams = 65535
    /\ heap[Top.self].numPrimParams = 2

\* C15: when Function.create raises, Function_create releases exactly the
\* placeholder it allocated and lets the failure propagate to the caller of
\* the lookup, with the Registry, every other Descriptor and the Descriptor
\* recorded in the current Invocation as they were before the lookup
ConstructionFailure ==
    [][ (/\ Depth > 0
         /\ Top.pc = "create"
         /\ TopStepped
         /\ stack'[Depth].cstep = "threw")
        => (/\ effects'.released = {Top.self}
            /\ ~heap'[Top.self].allocated
            /\ \A d \in Descs \ {Top.self} : heap'[d] = heap[d]
            /\ s_funcMap' = s_funcMap
            /\ \A o \in Oids : s_funcMap[o] # Top.self
            /\ stack'[Depth].pc = "error"
            /\ stack'[Depth].function = Top.function
            /\ Top.function = NULL) ]_vars

\* the construction of a UDT function, looked up from the running method of
\* a registered function, has raised: the placeholder is released and the
\* Registry holds the caller's Descriptor and nothing for the failed Oid
NestedConstructionRaised ==
    /\ Depth = 2
    /\ stack[1].pc = "running"
    /\ s_funcMap[stack[1].funcOid] = stack[1].function
    /\ Top.funcOid = 3
    /\ Top.cstep = "threw"
    /\ Top.pc = "error"
    /\ Top.function = NULL
    /\ s_funcMap[3] = NULL
    /\ effects.released # {}
    /\ \A d \in effects.released : ~heap[d].allocated

\* C16: every return of Function_invokeTrigger leaves the is-null flag
\* false, whatever guest-side code stored in it; and when a guest failure
\* is pending after the invoke the result is 0 and neither the connect, nor
\* the switch of memory context, nor the extraction of the row is made
TriggerResult ==
    [][ (/\ Depth > 0
         /\ Top.forTrigger
         /\ TopStepped
         /\ stack'[Depth].pc = "return")
        => LET after == stack'[Depth]
           IN  /\ ~after.isnull
               /\ after.trig.pending =>
                     /\ after.retVal = 0
                     /\ after.trig.steps = <<>> ]_vars

\* a trigger call returns with a guest failure pending, after guest-side
\* code had set the is-null flag
PendingFailureAfterNull ==
    /\ Depth > 0
    /\ Top.forTrigger
    /\ Top.pc = "return"
    /\ Top.trig.pending
    /\ Top.trig.guestNull
    /\ Top.trig.steps = <<>>
    /\ Top.retVal = 0
    /\ ~Top.isnull

\* C17: Function_invokeTrigger sets the header to (1 reference, 0
\* primitives) whatever counts the Descriptor holds, writes the trigger data
\* object to reference slot 0 and to no other reference slot, and writes no
\* primitive slot
TriggerMarshaling ==
    [][ (/\ Depth > 0
         /\ Top.forTrigger
         /\ Top.pc = "invoke"
         /\ TopStepped
         /\ stack'[Depth].pc = "marshal")
        => (/\ s_countCheck' = 1 * 256 + 0
            /\ s_referenceParameters'[0] = TriggerDataObj
            /\ \A i \in Slots \ {0} :
                  s_referenceParameters'[i] = s_referenceParameters[i]
            /\ s_primitiveParameters' = s_primitiveParameters) ]_vars

\* a trigger whose Descriptor counts no parameter at all has marshaled its
\* trigger data over the area of a caller that had marshaled the int 7
TriggerMarshaledOverCaller ==
    /\ Depth = 2
    /\ Top.forTrigger
    /\ Top.pc = "marshal"
    /\ heap[Top.function].numRefParams = 0
    /\ heap[Top.function].numPrimParams = 0
    /\ s_countCheck = 256
    /\ s_referenceParameters[0] = TriggerDataObj
    /\ s_primitiveParameters[0] = 7
    /\ Top.pushedFrame

\* the numbers of reference and of primitive values the call of frame f
\* passes through the area: its arguments by class, and the slot of an
\* out-parameter return; the trigger data for a trigger
InFlightCounts(f) ==
    IF f.forTrigger
    THEN [refs |-> 1, prims |-> 0]
    ELSE LET self == heap[f.function]
             n == Len(self.paramTypes)
             prims == Cardinality({i \in 1..n : self.paramTypes[i] = "int"})
             out == IF Type_isOutParameter(self.returnType) /\ ~self.isMultiCall
                    THEN 1 ELSE 0
         IN  [refs |-> n - prims + out, prims |-> prims]

\* C18: whenever the call on top has put its arguments in the area and the
\* guest has not consumed them yet, the header is non-zero and holds that
\* call's reference count in its high byte and its primitive count in its
\* low byte
HeaderInFlight ==
    (/\ Depth > 0
     /\ Top.pc = "marshal"
     /\ InFlightCounts(Top) # [refs |-> 0, prims |-> 0])
    => (/\ s_countCheck # 0
        /\ (s_countCheck % 65536) \div 256 = InFlightCounts(Top).refs
        /\ s_countCheck % 256 = InFlightCounts(Top).prims)

\* a call entered while its caller was marshaling MaxParams references and
\* an out-parameter found the header zero: it saved no frame
NestedCallFoundZeroHeader ==
    /\ Depth = 2
    /\ stack[1].pc = "marshal"
    /\ InFlightCounts(stack[1]) = [refs |-> MaxParams + 1, prims |-> 0]
    /\ Top.pc = "marshal"
    /\ Top.entry.cc = 0
    /\ ~Top.pushedFrame
    /\ paramFrames = <<>>

\* the Descriptors Function_create has returned and are still referred to:
\* those recorded in an Invocation and those in the Registry
ReturnedDescs ==
    ({stack[i].function : i \in 1..Depth} \cup {s_funcMap[o] : o \in Oids}) \ {NULL}

\* C19: every Descriptor that Function_create returned or that the Registry
\* holds has either isUDT false and a method handle, or isUDT true with a
\* registered UDT and one of the four dispatch functions; none has a method
\* handle together with isUDT true
PayloadVariant ==
    \A d \in ReturnedDescs :
        LET f == heap[d]
        IN  /\ f.allocated
            /\ \/ ~f.isUDT /\ f.methodHandle # NULL
               \/ /\ f.isUDT
                  /\ f.udt # NULL
                  /\ f.udtFunction \in {"UDT_input", "UDT_output",
                                         "UDT_receive", "UDT_send"}
            /\ ~(f.isUDT /\ f.methodHandle # NULL)

\* a UDT function's Descriptor and a non-UDT function's Descriptor are both
\* registered, and each is recorded in an Invocation
BothVariantsInUse ==
    /\ Depth = 2
    /\ stack[1].function = s_funcMap[5]
    /\ Top.function = s_funcMap[3]
    /\ s_funcMap[5] # NULL
    /\ s_funcMap[3] # NULL
    /\ heap[s_funcMap[5]].methodHandle # NULL
    /\ ~heap[s_funcMap[5]].isUDT
    /\ heap[s_funcMap[3]].isUDT
    /\ heap[s_funcMap[3]].udtFunction = "UDT_receive"

\* C20: _storeToUDT called for a type that is not defined yet leaves the
\* placeholder as allocated (isUDT false, no class, no loader, no UDT), and
\* when Function.create then returns, Function_create releases the
\* placeholder and yields null to a validator and an error to any other
\* caller
UndefinedTypeStore ==
    [][ (Depth > 0 /\ Top.pc = "create" /\ TopStepped) =>
        LET after == stack'[Depth]
        IN  /\ after.cstep = "shell" =>
                  /\ heap' = heap
                  /\ heap'[Top.self] = [ZeroFunction EXCEPT !.allocated = TRUE]
            /\ (Top.cstep = "shell" /\ after.cstep # "threw") =>
                  /\ effects'.released = {Top.self}
                  /\ ~heap'[Top.self].allocated
                  /\ \A o \in Oids : s_funcMap'[o] # Top.self
                  /\ after.function = NULL
                  /\ after.pc = IF Top.forValidator THEN "return" ELSE "error" ]_vars

\* _storeToUDT has returned to a validator's Function.create for a type
\* that is still a shell: the placeholder is as it was allocated
ShellStoreLeftPlaceholder ==
    /\ Depth > 0
    /\ Top.funcOid = 3
    /\ Top.forValidator
    /\ Top.pc = "create"
    /\ Top.cstep = "shell"
    /\ heap[Top.self] = [ZeroFunction EXCEPT !.allocated = TRUE]
    /\ s_funcMap[3] = NULL

\* C21: _storeToUDT on a defined type with a tag other than i, o, r, s
\* raises an error, after which the construction can only end in
\* Function_create's PG_CATCH: the placeholder is released, is recorded in no
\* Invocation and is not put in the Registry; with one of the four tags the
\* dispatch function stored is UDT_input, UDT_output, UDT_receive or
\* UDT_send respectively
UdtOperationTag ==
    [][ (Depth > 0 /\ Top.pc = "create" /\ TopStepped) =>
        LET after == stack'[Depth]
            tag == after.udtTag
        IN  /\ (Top.cstep = "none" /\ tag # "none") =>
                  IF tag \in {"i", "o", "r", "s"}
                  THEN /\ after.cstep = "udt"
                       /\ heap'[Top.self].udtFunction =
                             (CASE tag = "i" -> "UDT_input"
                                [] tag = "o" -> "UDT_output"
                                [] tag = "r" -> "UDT_receive"
                                [] tag = "s" -> "UDT_send")
                  ELSE after.cstep = "failed"
            /\ Top.cstep = "failed" =>
                  /\ after.cstep = "threw"
                  /\ after.pc = "error"
                  /\ after.function = NULL
                  /\ effects'.released = {Top.self}
                  /\ ~heap'[Top.self].allocated
                  /\ s_funcMap' = s_funcMap
                  /\ \A o \in Oids : s_funcMap[o] # Top.self ]_vars

\* the construction of a UDT function whose callback passed the tag x has
\* ended in the error exit, with the placeholder released and no entry for
\* the function in the Registry
BadTagRaised ==
    /\ Depth > 0
    /\ Top.funcOid = 3
    /\ Top.udtTag = "x"
    /\ Top.cstep = "threw"
    /\ Top.pc = "error"
    /\ Top.function = NULL
    /\ s_funcMap[3] = NULL
    /\ effects.released # {}

\* C22: pljava_Function_setParameter raises an error and leaves the header,
\* every slot and the saved frames as they were when index is not -1 or the
\* Descriptor counts no reference parameter; otherwise it stores the value
\* in reference slot numRefParams - 1 and changes no other slot, nor the
\* header; in neither case does it change a Descriptor
SetParameterContract ==
    [][ (/\ Depth > 0
         /\ Top.pc = "marshal"
         /\ TopStepped
         /\ Top.setp = <<>>
         /\ stack'[Depth].setp # <<>>)
        => LET after == stack'[Depth]
               index == after.setp[1]
               numRefs == heap[Top.function].numRefParams
           IN  /\ heap' = heap
               /\ s_countCheck' = s_countCheck
               /\ s_primitiveParameters' = s_primitiveParameters
               /\ paramFrames' = paramFrames
               /\ IF index # -1 \/ numRefs < 1
                  THEN /\ after.pc = "error"
                       /\ s_referenceParameters' = s_referenceParameters
                  ELSE /\ after.pc = "marshal"
                       /\ s_referenceParameters'[numRefs - 1] = after.setp[2]
                       /\ \A i \in Slots \ {numRefs - 1} :
                             s_referenceParameters'[i] = s_referenceParameters[i] ]_vars

\* the result set was stored for a function of (Object) with an
\* out-parameter return: it lies in reference slot 1, behind the argument
OutParameterSet ==
    /\ Depth = 1
    /\ Top.pc = "marshal"
    /\ Top.funcOid = 9
    /\ Top.setp = <<-1, ResultSetObj>>
    /\ heap[Top.function].numRefParams = 2
    /\ s_referenceParameters[0] = ObjBase + 7
    /\ s_referenceParameters[1] = ResultSetObj

\* the fields of Descriptor d that a step changed
ChangedFields(d) == {k \in DOMAIN ZeroFunction : heap'[d][k] # heap[d][k]}

\* C23: no step changes a field of a Descriptor that is in the Registry,
\* unless Function_clearFunctionCache releases it as not in use; and a type
\* reconciliation changes, in the Descriptor under construction only, either
\* one parameter type or the return type, and beside it nothing but the two
\* counts
DescriptorImmutability ==
    [][ /\ \A d \in Descs :
             (\E o \in Oids : s_funcMap[o] = d) =>
                \/ ChangedFields(d) = {}
                \/ /\ ClearStepped
                   /\ \A i \in 1..Depth : stack[i].function # d
                   /\ d \in effects'.released
                   /\ \A o \in Oids : s_funcMap'[o] # d
        /\ (/\ Depth > 0
            /\ Top.pc = "create"
            /\ TopStepped
            /\ stack'[Depth].nrec = Top.nrec + 1)
           => (/\ \A d \in Descs \ {Top.self} : ChangedFields(d) = {}
               /\ \A o \in Oids : s_funcMap[o] # Top.self
               /\ ChangedFields(Top.self) \subseteq
                     {"paramTypes", "returnType", "numRefParams", "numPrimParams"}
               /\ "returnType" \in ChangedFields(Top.self) =>
                     ChangedFields(Top.self) = {"returnType"}
               /\ Len(heap'[Top.self].paramTypes) = Len(heap[Top.self].paramTypes)
               /\ Cardinality({i \in 1..Len(heap[Top.self].paramTypes) :
                                  heap'[Top.self].paramTypes[i] #
                                  heap[Top.self].paramTypes[i]}) <= 1) ]_vars

\* a registered Descriptor whose parameter type was reconciled from Object
\* to int during its construction is in use by two nested calls, the inner
\* one past pljava_Function_setParameter
ReconciledDescriptorInUse ==
    /\ Depth = 2
    /\ stack[1].function = s_funcMap[9]
    /\ Top.function = s_funcMap[9]
    /\ s_funcMap[9] # NULL
    /\ heap[s_funcMap[9]].paramTypes = <<"int">>
    /\ heap[s_funcMap[9]].numPrimParams = 1
    /\ heap[s_funcMap[9]].numRefParams = 1
    /\ Top.pc = "marshal"
    /\ Top.setp # <<>>

ReconciliationDirection ==
    [][ \A index \in -2..1, explicitTypes \in ExplicitArrays, canReplace \in BOOLEAN :
          ReconcileTypes(index, explicitTypes, canReplace) =>
            LET before == heap[Top.self]
                after == heap'[Top.self]
                n == Len(before.paramTypes)
                name == CASE index = -2 -> explicitTypes[1]
                          [] index = -1 -> explicitTypes[n + 1]
                          [] OTHER -> explicitTypes[index + 1]
                stored == IF canReplace THEN name
                          ELSE IF index = -2 THEN Type_getCoerceOut(name, "none")
                          ELSE Type_getCoerceIn(name, "none")
            IN  IF index \in {-1, -2}
                THEN /\ after.returnType = stored
                     /\ after.paramTypes = before.paramTypes
                ELSE /\ after.paramTypes = [before.paramTypes EXCEPT ![index + 1] = stored]
                     /\ after.returnType = before.returnType ]_vars

\* a Descriptor under construction holds an input adapter for its second
\* parameter and an output adapter for its return type
AdaptersStored ==
    /\ Depth = 1
    /\ Top.pc = "create"
    /\ Top.nrec = 2
    /\ heap[Top.self].paramTypes = <<"int", "in(int)">>
    /\ heap[Top.self].returnType = "out(Object)"

\* what of a Descriptor a pfree does not give back: JNI references and the
\* separately allocated parameter-type array
HoldsOwnedResources(d) ==
    \/ d.clazz # NULL
    \/ d.schemaLoader # NULL
    \/ d.typeMap # NULL
    \/ d.paramTypes # <<>>

\* C26: whenever Function_create releases a placeholder, on the incomplete
\* path or on the failure path, no store callback of that construction has
\* left in it a class reference, a schema-loader reference, a type-map
\* reference or a parameter-type array
BlindReleaseSafe ==
    [][ (/\ Depth > 0
         /\ Top.pc = "create"
         /\ Len(stack') = Depth
         /\ stack'[Depth].cstep \in {"threw", "returned"}
         /\ effects'.released = {Top.self})
        => ~HoldsOwnedResources(heap[Top.self]) ]_vars

\* _storeToUDT has stored the class and loader references and then met an
\* unknown operation tag: the construction can only end in PG_CATCH's pfree
ReferencesStoredBeforeFailure ==
    /\ Depth > 0
    /\ Top.pc = "create"
    /\ Top.cstep = "failed"
    /\ heap[Top.self].clazz # NULL
    /\ heap[Top.self].schemaLoader # NULL

\* C27: for every non-UDT Descriptor, after construction and after any
\* sequence of reconciliations, numPrimParams is the number of parameters
\* whose current type is passed as primitive and neither count has wrapped
\* below zero; and once Function_invoke has marshaled the arguments of a
\* call, the header it wrote agrees with the number of primitive slots
\* written and with the final reference index (one more reference being
\* counted for an out-parameter return)
CountsMatchSlotLayout ==
    /\ \A e \in StoredNonUDT :
          /\ heap[e.d].numPrimParams = NumPrims(heap[e.d].paramTypes)
          /\ heap[e.d].numPrimParams <= MaxParams
          /\ heap[e.d].numRefParams <= MaxParams + 1
    /\ IF Depth = 0 THEN TRUE
       ELSE (/\ Top.pc = "marshal"
             /\ ~Top.forTrigger
             /\ Top.idx = NArgs(Top))
            => \E out \in {0, 1} :
                   s_countCheck = COUNTCHECK(Top.refIdx + out, Top.primIdx)

\* the argument of a function whose parameter was reconciled from int to
\* int[] went to reference slot 0 and no primitive slot was written, under
\* a header that announces 255 references and 2 primitives
HeaderDisagreesWithSlots ==
    /\ Depth = 1
    /\ Top.pc = "marshal"
    /\ Top.funcOid = 8
    /\ Top.idx = 1
    /\ Top.refIdx = 1
    /\ Top.primIdx = 0
    /\ heap[Top.function].paramTypes = <<"int[]">>
    /\ s_countCheck = COUNTCHECK(65535, 2)
    /\ s_countCheck = COUNTCHECK(255, 2)

\* the pairs (refs, prims) of counts a Descriptor can hold: at most MaxParams
\* parameters, and one more reference for an out-parameter return
DescriptorCounts ==
    {pair \in (0..(MaxParams + 1)) \X (0..MaxParams) :
        pair[1] + pair[2] <= MaxParams + 1}

\* C28: the header Function_invoke stores for a Descriptor is zero exactly
\* when the Descriptor counts no reference and no primitive, and no other
\* pair of counts a Descriptor can hold gives the same header
HeaderPacking ==
    IF Depth = 0 THEN TRUE
    ELSE (Top.pc = "marshal" /\ Top.idx = 0)
         => LET refs == heap[Top.function].numRefParams
                prims == heap[Top.function].numPrimParams
            IN  /\ s_countCheck = COUNTCHECK(refs, prims)
                /\ s_countCheck = 0 <=> (refs = 0 /\ prims = 0)
                /\ \A pair \in DescriptorCounts :
                      COUNTCHECK(pair[1], pair[2]) = s_countCheck
                          => pair = <<refs, prims>>

\* Function_invoke stored the header of a function of MaxParams reference
\* parameters and an out-parameter return: the header is zero, as it is for
\* a function without parameters
FullWidthHeaderIsZero ==
    /\ Depth = 1
    /\ Top.pc = "marshal"
    /\ Top.idx = 0
    /\ heap[Top.function].numRefParams = MaxParams + 1
    /\ heap[Top.function].numPrimParams = 0
    /\ s_countCheck = 0

====
